---------------------------- MODULE Spec2Model ----------------------------
(***************************************************************************)
(* State-machine model of the pylibczirw-mode CZI reader                   *)
(* (src/bioio_czi/pylibczirw_reader/reader.py) and of the helpers it calls *)
(* (bounding_box.py, channels.py, pixel_sizes.py, metadata.py).            *)
(*                                                                         *)
(* The decoder (pylibCZIrw) is an external collaborator: a file is a       *)
(* record of the facts the decoder reports for it.  The reader's fields    *)
(* are the variables; each property access or method call of the reader    *)
(* is one action; the execution of one delayed chunk task is one action.   *)
(*                                                                         *)
(* Python's Optional values are sequences of length 0 (None) or 1.         *)
(***************************************************************************)
EXTENDS Integers, Sequences, FiniteSets, TLC

VARIABLES
    file,                       \* the decoder's facts about the file at _path
    current_scene_index,        \* Reader._current_scene_index
    total_bounding_box,         \* Reader._total_bounding_box
    scenes_bounding_rectangle,  \* Reader._scenes_bounding_rectangle
    pixel_types,                \* Reader._pixel_types
    scenes,                     \* Reader._scenes (None until first computed)
    metadata,                   \* Reader._metadata (None until first loaded)
    xarray_dask_data,           \* Reader._xarray_dask_data (array id or None)
    xarray_data,                \* Reader._xarray_data (array id or None)
    arrays,                     \* every DataArray built so far, by id
    lastOp,                     \* the operation that ran last
    reads,                      \* the decoder plane reads that operation issued
    err,                        \* its outcome: "ok" or the exception raised
    returned,                   \* the array an array accessor returned (id or None)
    handle_events,              \* the decoder handle events of that operation
    open_handles,               \* the number of decoder handles left open
    call,                       \* the helper function called last, with its input
    ret                         \* what that call returned or raised

vars == <<file, current_scene_index, total_bounding_box,
          scenes_bounding_rectangle, pixel_types, scenes, metadata,
          xarray_dask_data, xarray_data, arrays, lastOp, reads, err,
          returned, handle_events, open_handles, call, ret>>

\* ------------------------------------------------------------------ bounds

\* At most this many DataArrays are built in one behaviour.
MaxArrays == 2
\* The longest channel group, Scaling block and subblock list given to the
\* helper functions.
MaxChannels == 2
MaxScales == 2
MaxSubblocks == 2

\* ------------------------------------------------------- Python idioms

None == <<>>
Some(x) == <<x>>
IsNone(o) == o = <<>>
Val(o) == o[1]

\* dict.get(key): the value, or None when the key is absent.
Get(d, k) == IF k \in DOMAIN d THEN Some(d[k]) ELSE None

\* seq[:n] with Python's meaning of a negative or too large n.
Prefix(seq, n) ==
    LET m == IF n < 0 THEN Len(seq) + n ELSE n
        k == IF m < 0 THEN 0 ELSE IF m > Len(seq) THEN Len(seq) ELSE m
    IN SubSeq(seq, 1, k)

\* seq[-2:]
LastTwo(seq) ==
    IF Len(seq) <= 2 THEN seq ELSE SubSeq(seq, Len(seq) - 1, Len(seq))

\* seq[:-2]
AllButLastTwo(seq) ==
    IF Len(seq) <= 2 THEN <<>> ELSE SubSeq(seq, 1, Len(seq) - 2)

Range(seq) == {seq[i] : i \in DOMAIN seq}

\* max(seq), 0 for the empty sequence
SeqMax(seq) ==
    IF seq = <<>> THEN 0
    ELSE CHOOSE m \in Range(seq) : \A n \in Range(seq) : n <= m

\* ------------------------------------------------- bioio_base constants

\* bioio_base.dimensions.DEFAULT_DIMENSION_ORDER_LIST
DEFAULT_DIMENSION_ORDER_LIST == <<"T", "C", "Z", "Y", "X">>

\* bioio_base.dimensions.DimensionNames
Channel == "C"
SpatialZ == "Z"
SpatialY == "Y"
SpatialX == "X"
Samples == "S"

\* The keys of PIXEL_DICT that contain "Bgr".
BgrPixelTypes == {"Bgr24", "Bgr48", "Bgr96Float"}


\* --------------------------------------------------- the decoder's files

\* A pylibCZIrw Rectangle.
Rect(x, y, w, h) == [x |-> x, y |-> y, w |-> w, h |-> h]

\* XML elements of the metadata document.
SceneElem(attrib, shape) == [attrib |-> attrib, Shape |-> shape]
ChannelElem(attrib) == [attrib |-> attrib]
\* The text of an element: the decimal text of n * 1e-6, or a text that is
\* not a number.
NumberText(n) == [numeric |-> TRUE, value |-> n]
OtherText == [numeric |-> FALSE, value |-> 0]
\* A Distance element whose Value text is a number of micro-metres written
\* in metres.
Distance(id, n) == [Id |-> id, Value |-> Some([text |-> Some(NumberText(n))])]

ScalingYX == <<Distance("Y", 2), Distance("X", 2)>>
ScalingZYX == <<Distance("Z", 3), Distance("Y", 2), Distance("X", 2)>>

\* Two scenes with raw indices 0 and 1 and different rectangles, two
\* channels (after S=2_4x2_T=2=Z=3_CH=2.czi).
FileTwoScenes ==
    [name |-> "two_scenes",
     scene_ids |-> <<0, 1>>,
     rects |-> (0 :> Rect(0, 0, 3, 2)) @@ (1 :> Rect(4, 1, 2, 1)),
     bbox |-> ("T" :> <<0, 1>>) @@ ("C" :> <<0, 2>>)
              @@ ("Y" :> <<0, 2>>) @@ ("X" :> <<0, 6>>),
     pixel_types |-> (0 :> "Gray16") @@ (1 :> "Gray16"),
     xml |-> [Scenes |-> <<SceneElem(("Index" :> "0") @@ ("Name" :> "TR1"), None),
                           SceneElem(("Index" :> "1") @@ ("Name" :> "TR2"), None)>>,
              Channels |-> << <<ChannelElem(("Id" :> "Channel:0") @@ ("Name" :> "DAPI")),
                                ChannelElem(("Id" :> "Channel:1") @@ ("Name" :> "EGFP"))>> >>,
              Scaling |-> ScalingYX]]

\* Three scenes whose names are listed in the metadata in name order but
\* carry raw indices 2, 0, 1, one channel and two Z planes (after
\* s_3_t_1_c_3_z_5.czi).
FileThreeScenes ==
    [name |-> "three_scenes",
     scene_ids |-> <<0, 1, 2>>,
     rects |-> (0 :> Rect(0, 0, 2, 1)) @@ (1 :> Rect(3, 0, 1, 2))
               @@ (2 :> Rect(5, 0, 3, 1)),
     bbox |-> ("C" :> <<0, 1>>) @@ ("Z" :> <<0, 2>>)
              @@ ("Y" :> <<0, 2>>) @@ ("X" :> <<0, 8>>),
     pixel_types |-> (0 :> "Gray16"),
     xml |-> [Scenes |-> <<SceneElem(("Index" :> "2") @@ ("Name" :> "P1"), None),
                           SceneElem(("Index" :> "0") @@ ("Name" :> "P2"), None),
                           SceneElem(("Index" :> "1") @@ ("Name" :> "P3"), None)>>,
              Channels |-> << <<ChannelElem(("Id" :> "Channel:0") @@ ("Name" :> "Bright"))>> >>,
              Scaling |-> ScalingZYX]]

\* No scenes, colour pixels, no channel group (after RGB-8bit.czi).
FileNoScenes ==
    [name |-> "no_scenes",
     scene_ids |-> <<>>,
     rects |-> <<>>,
     bbox |-> ("T" :> <<0, 1>>) @@ ("Y" :> <<0, 2>>) @@ ("X" :> <<0, 3>>),
     pixel_types |-> (0 :> "Bgr24"),
     xml |-> [Scenes |-> <<>>,
              Channels |-> <<>>,
              Scaling |-> ScalingYX]]

\* The scenes with data carry raw indices 1 and 2; the first has a Shape
\* name, the second has no Name and a Shape without one (after
\* variable_per_scene_dims.czi and the file simulated by
\* test_czi_reader_maps_bioio_scene_index_to_nonzero_czi_index).
FileNonZero ==
    [name |-> "nonzero_czi_index",
     scene_ids |-> <<1, 2>>,
     rects |-> (1 :> Rect(0, 0, 2, 2)) @@ (2 :> Rect(2, 2, 3, 1)),
     bbox |-> ("C" :> <<0, 2>>) @@ ("Y" :> <<0, 3>>) @@ ("X" :> <<0, 5>>),
     pixel_types |-> (0 :> "Gray8"),
     xml |-> [Scenes |-> <<SceneElem(("Index" :> "1") @@ ("Name" :> "P1"),
                                     Some([attrib |-> ("Name" :> "D4")])),
                           SceneElem(("Index" :> "2"),
                                     Some([attrib |-> ("Id" :> "s")]))>>,
              Channels |-> << <<ChannelElem(("Id" :> "Channel:0")),
                                ChannelElem(("Id" :> "Channel:1") @@ ("Name" :> "CMDRP"))>> >>,
              Scaling |-> ScalingYX]]

\* The metadata describes raw index 0 twice and raw index 1 never.
FileBadScenes ==
    [name |-> "bad_scene_metadata",
     scene_ids |-> <<0, 1>>,
     rects |-> (0 :> Rect(0, 0, 2, 1)) @@ (1 :> Rect(0, 1, 2, 1)),
     bbox |-> ("Z" :> <<0, 2>>) @@ ("Y" :> <<0, 2>>) @@ ("X" :> <<0, 2>>),
     pixel_types |-> (0 :> "Gray16"),
     xml |-> [Scenes |-> <<SceneElem(("Index" :> "0") @@ ("Name" :> "A"), None),
                           SceneElem(("Index" :> "0") @@ ("Name" :> "B"), None)>>,
              Channels |-> <<>>,
              Scaling |-> ScalingZYX]]

\* No scenes, and the decoder reports no Y extent.
FileNoY ==
    [name |-> "no_y_extent",
     scene_ids |-> <<>>,
     rects |-> <<>>,
     bbox |-> ("C" :> <<0, 2>>) @@ ("X" :> <<0, 2>>),
     pixel_types |-> (0 :> "Gray16"),
     xml |-> [Scenes |-> <<>>,
              Channels |-> << <<ChannelElem(("Name" :> "a")),
                                ChannelElem(("Name" :> "b"))>> >>,
              Scaling |-> ScalingYX]]

\* No scenes, three channels in the data and one Channel element in the
\* metadata.
FileFewNames ==
    [name |-> "few_channel_names",
     scene_ids |-> <<>>,
     rects |-> <<>>,
     bbox |-> ("C" :> <<0, 3>>) @@ ("Y" :> <<0, 2>>) @@ ("X" :> <<0, 2>>),
     pixel_types |-> (0 :> "Gray8"),
     xml |-> [Scenes |-> <<>>,
              Channels |-> << <<ChannelElem(("Name" :> "only"))>> >>,
              Scaling |-> ScalingYX]]

Files == {FileTwoScenes, FileThreeScenes, FileNoScenes, FileNonZero,
          FileBadScenes, FileNoY, FileFewNames}

\* --------------------------------------------------- bounding_box.py

\* size(bounding_box, dim)
size(bounding_box, dim) ==
    IF dim \notin DOMAIN bounding_box
    THEN -1
    ELSE bounding_box[dim][2] - bounding_box[dim][1]

\* ------------------------------------------------------- metadata.py

\* generate_ome_image_id(image_id)
generate_ome_image_id(image_id) == "Image:" \o ToString(image_id)

\* generate_ome_channel_id(image_id, channel_id); both are indices here, so
\* the removal of an "Image:" prefix changes nothing.
generate_ome_channel_id(image_id, channel_id) ==
    "Channel:" \o ToString(image_id) \o ":" \o ToString(channel_id)

\* ------------------------------------------------------- channels.py

\* A channel name that prefers the Id attribute to the Name attribute.
channel_name_id_first(channel, scene_index, i) ==
    LET name == Get(channel.attrib, "Name")
        id == Get(channel.attrib, "Id")
        id_or_name == IF IsNone(id) THEN name ELSE id
    IN IF IsNone(id_or_name)
       THEN generate_ome_channel_id(scene_index, i)
       ELSE Val(id_or_name)

\* The name of the channel at 0-based position i of its group.
channel_name(channel, scene_index, i) ==
    LET name == Get(channel.attrib, "Name")
        id == Get(channel.attrib, "Id")
        name_or_id == IF IsNone(name) THEN id ELSE name
    IN IF IsNone(name_or_id)
       THEN generate_ome_channel_id(scene_index, i)
       ELSE Val(name_or_id)

\* Whether get_channel_names logs "More channels in metadata than in data".
channel_warning(xml, scene_index, dims_shape) ==
    /\ Len(xml.Channels) > 0
    /\ Len(IF scene_index < Len(xml.Channels)
           THEN xml.Channels[scene_index + 1]
           ELSE xml.Channels[1]) > size(dims_shape, Channel)

\* A get_channel_names that always takes the first channel group.
get_channel_names_first_group(xml, scene_index, dims_shape) ==
    LET img_sets == xml.Channels
    IN IF Len(img_sets) = 0
       THEN None
       ELSE LET img == img_sets[1]
                number_of_channels_in_data == size(dims_shape, Channel)
                kept == Prefix(img, number_of_channels_in_data)
            IN Some([i \in 1..Len(kept) |->
                        channel_name(kept[i], scene_index, i - 1)])

\* get_channel_names(xml, scene_index, dims_shape): None, or the list.
get_channel_names(xml, scene_index, dims_shape) ==
    LET img_sets == xml.Channels
    IN IF Len(img_sets) = 0
       THEN None
       ELSE LET img == IF scene_index < Len(img_sets)
                       THEN img_sets[scene_index + 1]
                       ELSE img_sets[1]
                number_of_channels_in_data == size(dims_shape, Channel)
                kept == Prefix(img, number_of_channels_in_data)
            IN Some([i \in 1..Len(kept) |->
                        channel_name(kept[i], scene_index, i - 1)])

\* ------------------------------------------------------ pixel_sizes.py

\* float(text): the number, or ValueError for a text that is not one.
float(text) ==
    IF text.numeric THEN [err |-> "ok", value |-> Some(text.value)]
    ELSE [err |-> "ValueError", value |-> None]

\* A lookup for which allow_none also covers several records.
single_physical_pixel_size_lenient(xml, dimension, allow_none) ==
    LET scales == SelectSeq(xml.Scaling, LAMBDA e : e.Id = dimension)
    IN IF Len(scales) # 1
       THEN IF allow_none
            THEN [err |-> "ok", value |-> None]
            ELSE [err |-> "UnsupportedMetadataError", value |-> None]
       ELSE LET unparsed_scale == scales[1].Value
            IN IF IsNone(unparsed_scale) \/ IsNone(Val(unparsed_scale).text)
               THEN [err |-> "UnsupportedMetadataError", value |-> None]
               ELSE float(Val(Val(unparsed_scale).text))

\* _single_physical_pixel_size(metadata, dimension, allow_none):
\* [err, value] where value is None or the size in microns.
single_physical_pixel_size(xml, dimension, allow_none) ==
    LET scales == SelectSeq(xml.Scaling, LAMBDA e : e.Id = dimension)
    IN IF Len(scales) # 1
       THEN IF allow_none /\ Len(scales) = 0
            THEN [err |-> "ok", value |-> None]
            ELSE [err |-> "UnsupportedMetadataError", value |-> None]
       ELSE LET unparsed_scale == scales[1].Value
            IN IF IsNone(unparsed_scale) \/ IsNone(Val(unparsed_scale).text)
               THEN [err |-> "UnsupportedMetadataError", value |-> None]
               ELSE float(Val(Val(unparsed_scale).text))

\* get_physical_pixel_sizes(metadata): [err, Z, Y, X]; the fields are
\* evaluated in the order Z, Y, X and the first failure is raised.
get_physical_pixel_sizes(xml) ==
    LET z == single_physical_pixel_size(xml, "Z", TRUE)
        y == single_physical_pixel_size(xml, "Y", FALSE)
        x == single_physical_pixel_size(xml, "X", FALSE)
        e == IF z.err # "ok" THEN z.err
             ELSE IF y.err # "ok" THEN y.err ELSE x.err
    IN [err |-> e, Z |-> z.value, Y |-> y.value, X |-> x.value]

\* ------------------------------ aicspylibczi_reader/subblock_metadata.py

\* The text of an AcquisitionTime element: an instant (a number of
\* milliseconds), the text "NaT", or a text numpy cannot parse.
TimeText(t) == [parses |-> "instant", t |-> t]
NaTText == [parses |-> "NaT", t |-> 0]
BadTimeText == [parses |-> "error", t |-> 0]

\* np.datetime64(text): an instant, NaT for the text "NaT", or ValueError.
datetime64(text) ==
    IF text.parses = "instant"
    THEN [err |-> "ok", value |-> Some([nat |-> FALSE, t |-> text.t])]
    ELSE IF text.parses = "NaT"
    THEN [err |-> "ok", value |-> Some([nat |-> TRUE, t |-> 0])]
    ELSE [err |-> "ValueError", value |-> None]

\* A subblock metadata fragment: a well-formed document, with or without an
\* AcquisitionTime element (whose text may be empty), or a string that is
\* not well-formed XML.
Fragment(wellformed, acquisition_time) ==
    [wellformed |-> wellformed, AcquisitionTime |-> acquisition_time]

\* _extract_acquisition_time_from_subblock_metadata(subblock_metadata):
\* [err, value]; etree.fromstring is outside the try block.
extract_acquisition_time_from_subblock_metadata(subblock_metadata) ==
    IF ~subblock_metadata.wellformed
    THEN [err |-> "XMLSyntaxError", value |-> None]
    ELSE IF /\ ~IsNone(subblock_metadata.AcquisitionTime)
            /\ ~IsNone(Val(subblock_metadata.AcquisitionTime).text)
    THEN [err |-> "ok",
          value |-> datetime64(Val(Val(subblock_metadata.AcquisitionTime).text)).value]
    ELSE [err |-> "ok", value |-> None]

\* czi.read_subblock_metadata(Z=0, C=0, T=t, R=0, S=0, I=0, H=0, V=0): the
\* subblocks of the file at those coordinates, in the file's order (the
\* mosaic tile index is not constrained).
read_subblock_metadata_at(czi, t) ==
    SelectSeq(czi, LAMBDA b : b.T = t /\ b.C = 0)

\* _acquisition_time(czi, which_subblock): [err, value]
acquisition_time(czi, which_subblock) ==
    IF read_subblock_metadata_at(czi, which_subblock) = <<>>
    THEN [err |-> "ok", value |-> None]
    ELSE extract_acquisition_time_from_subblock_metadata(
            read_subblock_metadata_at(czi, which_subblock)[1].metadata)

\* _difference_in_ms(start_time, end_time): a difference with NaT is nan.
difference_in_ms(start_time, end_time) ==
    IF start_time.nat \/ end_time.nat
    THEN [nan |-> TRUE, ms |-> 0]
    ELSE [nan |-> FALSE, ms |-> end_time.t - start_time.t]

\* time_between_subblocks(czi, start_subblock_index, end_subblock_index)
time_between_subblocks(czi, start_subblock_index, end_subblock_index) ==
    LET start_time == acquisition_time(czi, start_subblock_index)
        end_time == acquisition_time(czi, end_subblock_index)
    IN IF start_time.err # "ok"
       THEN [err |-> start_time.err, value |-> None]
       ELSE IF end_time.err # "ok"
       THEN [err |-> end_time.err, value |-> None]
       ELSE IF IsNone(start_time.value) \/ IsNone(end_time.value)
       THEN [err |-> "ok", value |-> None]
       ELSE [err |-> "ok",
             value |-> Some(difference_in_ms(Val(start_time.value),
                                             Val(end_time.value)))]

\* np.sort(times)[0] and np.sort(times)[-1]: NaT sorts after every instant.
sorted_first(times) ==
    IF \A i \in DOMAIN times : times[i].nat
    THEN times[1]
    ELSE CHOOSE m \in {times[i] : i \in {j \in DOMAIN times : ~times[j].nat}} :
            \A i \in DOMAIN times : times[i].nat \/ m.t <= times[i].t
sorted_last(times) ==
    IF \E i \in DOMAIN times : times[i].nat
    THEN [nat |-> TRUE, t |-> 0]
    ELSE CHOOSE m \in Range(times) : \A i \in DOMAIN times : times[i].t <= m.t

\* elapsed_time_all_subblocks(czi): every subblock of the first scene is
\* read; the filter `t is not np.datetime64("NaT")` compares identities and
\* removes nothing, so only None is filtered out.
elapsed_time_all_subblocks(czi) ==
    LET all_acquisition_times ==
            [i \in DOMAIN czi |->
                extract_acquisition_time_from_subblock_metadata(czi[i].metadata)]
        kept == SelectSeq(all_acquisition_times, LAMBDA r : ~IsNone(r.value))
        filtered_acquisition_times == [i \in DOMAIN kept |-> Val(kept[i].value)]
    IN IF \E i \in DOMAIN czi : all_acquisition_times[i].err # "ok"
       THEN [err |-> "XMLSyntaxError", value |-> None]
       ELSE IF Len(filtered_acquisition_times) < 2
       THEN [err |-> "ok", value |-> None]
       ELSE [err |-> "ok",
             value |-> Some(difference_in_ms(
                                sorted_first(filtered_acquisition_times),
                                sorted_last(filtered_acquisition_times)))]

\* A file with several scenes is the list, by scene index, of the subblock
\* lists of its scenes.  czi.read_subblock_metadata(..., S=0): the helpers
\* above pass the literal scene index 0.
read_subblock_metadata_S0(file_scenes) == file_scenes[0]

\* The timelapse interval of the standard metadata after set_scene(scene):
\* the time between the time indices 0 and 1.
timelapse_interval(file_scenes, scene) ==
    time_between_subblocks(read_subblock_metadata_S0(file_scenes), 0, 1)

\* The total time duration of the standard metadata after set_scene(scene).
total_time_duration(file_scenes, scene) ==
    elapsed_time_all_subblocks(read_subblock_metadata_S0(file_scenes))

\* ------------------------------------ pylibczirw_reader/reader.py: scenes

\* A scene_name that leaves the Shape child out of the name.
scene_name_without_shape(xml, scene_index) ==
    LET scene_info == SelectSeq(xml.Scenes,
            LAMBDA e : Get(e.attrib, "Index") = Some(ToString(scene_index)))
    IN IF Len(scene_info) # 1
       THEN [err |-> "UnsupportedMetadataError", value |-> ""]
       ELSE [err |-> "ok",
             value |-> IF IsNone(Get(scene_info[1].attrib, "Name"))
                       THEN ToString(scene_index)
                       ELSE Val(Get(scene_info[1].attrib, "Name"))]

\* scene_name(metadata, scene_index): [err, value].
scene_name(xml, scene_index) ==
    LET scene_info == SelectSeq(xml.Scenes,
            LAMBDA e : Get(e.attrib, "Index") = Some(ToString(scene_index)))
    IN IF Len(scene_info) # 1
       THEN [err |-> "UnsupportedMetadataError", value |-> ""]
       ELSE LET given == Get(scene_info[1].attrib, "Name")
                name == IF IsNone(given) THEN ToString(scene_index)
                        ELSE Val(given)
                shape_info == scene_info[1].Shape
                shape_name == IF IsNone(shape_info) THEN None
                              ELSE Get(Val(shape_info).attrib, "Name")
            IN [err |-> "ok",
                value |-> IF IsNone(shape_name) THEN name
                          ELSE name \o "-" \o Val(shape_name)]

\* Scene ids walked from the largest raw index down.
scene_ids_descending(f) ==
    [i \in 1..Len(f.scene_ids) |-> f.scene_ids[Len(f.scene_ids) + 1 - i]]

\* Scene ids without the last one.
scene_ids_short(f) == Prefix(f.scene_ids, Len(f.scene_ids) - 1)

\* file.scenes_bounding_rectangle.keys(): the decoder lists its raw scene
\* indices in ascending order.
scene_ids(f) == f.scene_ids

\* The body of the scenes property when _scenes is None: [err, value].
compute_scenes(f) ==
    LET ids == scene_ids(f)
        named == [i \in 1..Len(ids) |-> scene_name(f.xml, ids[i])]
    IN IF \E i \in 1..Len(ids) : named[i].err # "ok"
       THEN [err |-> "UnsupportedMetadataError", value |-> None]
       ELSE IF Len(ids) < 1
       THEN [err |-> "ok", value |-> Some(<<generate_ome_image_id(0)>>)]
       ELSE [err |-> "ok",
             value |-> Some([i \in 1..Len(ids) |-> named[i].value])]

\* -------------------------------- pylibczirw_reader/reader.py: coordinates

\* Coordinates that count pixels instead of microns.
generate_coord_array_unscaled(start, stop, step_size) ==
    [i \in 1..(IF stop > start THEN stop - start ELSE 0) |-> start + i - 1]

\* BaseReader._generate_coord_array(start, stop, step_size):
\* np.arange(start, stop) * step_size
generate_coord_array(start, stop, step_size) ==
    [i \in 1..(IF stop > start THEN stop - start ELSE 0) |->
        (start + i - 1) * step_size]

\* Reader._get_coords(xml, scene_index, dims_shape): [err, coords], coords a
\* function from dimension names to coordinate lists.
get_coords(xml, scene_index, dims_shape) ==
    LET channel_names == get_channel_names(xml, scene_index, dims_shape)
        pps == get_physical_pixel_sizes(xml)
        scale == (SpatialZ :> pps.Z) @@ (SpatialY :> pps.Y)
                 @@ (SpatialX :> pps.X)
        spatial == {d \in {SpatialZ, SpatialY, SpatialX} :
                       ~IsNone(scale[d]) /\ d \in DOMAIN dims_shape}
        keys == spatial \cup (IF IsNone(channel_names) THEN {} ELSE {Channel})
    IN IF pps.err # "ok"
       THEN [err |-> pps.err, coords |-> <<>>]
       ELSE [err |-> "ok",
             coords |-> [d \in keys |->
                 IF d = Channel
                 THEN Val(channel_names)
                 ELSE generate_coord_array(0, size(dims_shape, d),
                                           Val(scale[d]))]]

\* ---------------------------------- pylibczirw_reader/reader.py: chunks

\* np.ndenumerate over an array of the given shape: its index tuples.
ndindex(shape) ==
    {idx \in [1..Len(shape) -> 0..SeqMax(shape)] :
        \A i \in 1..Len(shape) : idx[i] < shape[i]}

\* np.squeeze on a shape: every axis of length 1 is removed.
squeeze(shape) == SelectSeq(shape, LAMBDA n : n # 1)

\* The decoder's file.read(scene, plane, roi): the buffer has shape
\* (height, width, samples), the roi's when one is given and the file's
\* extent otherwise; its pixels are those of that plane of that scene.
\* A read that the decoder fails raises RuntimeError.
file_read(f, scene, plane, roi, ok) ==
    LET samples == IF f.pixel_types[0] \in BgrPixelTypes THEN 3 ELSE 1
        h == IF IsNone(roi) THEN size(f.bbox, SpatialY) ELSE Val(roi).h
        w == IF IsNone(roi) THEN size(f.bbox, SpatialX) ELSE Val(roi).w
    IN IF ok
       THEN [err |-> "ok",
             result |-> Some([pixels |-> [scene |-> scene, plane |-> plane,
                                          roi |-> roi],
                              shape |-> <<h, w, samples>>])]
       ELSE [err |-> "RuntimeError", result |-> None]

\* A chunk task that returns None for a plane the decoder failed to read.
chunk_result_swallowing(r, issued) ==
    [err |-> "ok", issued |-> issued,
     value |-> IF r.err # "ok" THEN None
               ELSE Some([pixels |-> Val(r.result).pixels,
                          shape |-> squeeze(Val(r.result).shape)])]

\* The end of the chunk task: a decoder failure propagates, a buffer is
\* returned through np.squeeze.
chunk_result(r, issued) ==
    IF r.err # "ok"
    THEN [err |-> r.err, issued |-> issued, value |-> None]
    ELSE [err |-> "ok", issued |-> issued,
          value |-> Some([pixels |-> Val(r.result).pixels,
                          shape |-> squeeze(Val(r.result).shape)])]

\* A chunk task that reads through a cursor shared by all chunks: the
\* last dimension is selected by the number of chunks read so far.
array_builder_shared_cursor(index_dims, indices, ok) ==
    LET cursor == Cardinality({c \in UNION {{<<a, i>> : i \in DOMAIN arrays[a].cells} :
                                               a \in DOMAIN arrays} :
                                  arrays[c[1]].cells[c[2]].status = "done"})
        plane == [d \in Range(index_dims) |->
                    IF d = index_dims[Len(index_dims)] THEN cursor
                    ELSE indices[CHOOSE i \in 1..Len(index_dims) :
                                    index_dims[i] = d]]
        no_scenes == Cardinality(DOMAIN scenes_bounding_rectangle) = 0
        scene == IF no_scenes THEN None ELSE Some(current_scene_index)
    IN IF Len(indices) < Len(index_dims)
       THEN [err |-> "AssertionError", issued |-> {}, value |-> None]
       ELSE IF ~no_scenes /\ Val(scene) \notin DOMAIN scenes_bounding_rectangle
       THEN [err |-> "KeyError", issued |-> {}, value |-> None]
       ELSE LET roi == IF no_scenes THEN None
                       ELSE Some(scenes_bounding_rectangle[Val(scene)])
            IN chunk_result(file_read(file, scene, plane, roi, ok),
                            {[scene |-> scene, plane |-> plane, roi |-> roi,
                              ok |-> ok]})

\* A chunk task that selects every dimension with the first index.
array_builder_first_index(index_dims, indices, ok) ==
    LET plane == [d \in Range(index_dims) |-> indices[1]]
        no_scenes == Cardinality(DOMAIN scenes_bounding_rectangle) = 0
        scene == IF no_scenes THEN None ELSE Some(current_scene_index)
    IN IF Len(indices) < Len(index_dims)
       THEN [err |-> "AssertionError", issued |-> {}, value |-> None]
       ELSE IF ~no_scenes /\ Val(scene) \notin DOMAIN scenes_bounding_rectangle
       THEN [err |-> "KeyError", issued |-> {}, value |-> None]
       ELSE LET roi == IF no_scenes THEN None
                       ELSE Some(scenes_bounding_rectangle[Val(scene)])
            IN chunk_result(file_read(file, scene, plane, roi, ok),
                            {[scene |-> scene, plane |-> plane, roi |-> roi,
                              ok |-> ok]})

\* The chunk task array_builder(indices) made by _array_builder(index_dims),
\* run in the reader's state of the moment it runs: [err, issued, value],
\* issued the decoder reads it made.
array_builder(index_dims, indices, ok) ==
    LET plane == [d \in Range(index_dims) |->
                    indices[CHOOSE i \in 1..Len(index_dims) : index_dims[i] = d]]
        no_scenes == Cardinality(DOMAIN scenes_bounding_rectangle) = 0
        scene == IF no_scenes THEN None ELSE Some(current_scene_index)
    IN IF Len(indices) < Len(index_dims)
       THEN [err |-> "AssertionError", issued |-> {}, value |-> None]
       ELSE IF ~no_scenes /\ Val(scene) \notin DOMAIN scenes_bounding_rectangle
       THEN [err |-> "KeyError", issued |-> {}, value |-> None]
       ELSE LET roi == IF no_scenes THEN None
                       ELSE Some(scenes_bounding_rectangle[Val(scene)])
            IN chunk_result(file_read(file, scene, plane, roi, ok),
                            {[scene |-> scene, plane |-> plane, roi |-> roi,
                              ok |-> ok]})

\* _read_delayed, step 1: dim_bounds, which is the dict _total_bounding_box
\* itself with the current scene's X and Y bounds written into it.
dim_bounds_of(tbb, rects, scene_index) ==
    IF Cardinality(DOMAIN rects) > 0
    THEN [d \in DOMAIN tbb \cup {SpatialX, SpatialY} |->
            IF d = SpatialX
            THEN <<rects[scene_index].x, rects[scene_index].x + rects[scene_index].w>>
            ELSE IF d = SpatialY
            THEN <<rects[scene_index].y, rects[scene_index].y + rects[scene_index].h>>
            ELSE tbb[d]]
    ELSE tbb

\* A filter that also keeps dimensions of extent 1.
ordered_dims_keeping_singletons(coords, tbb) ==
    SelectSeq(DEFAULT_DIMENSION_ORDER_LIST,
              LAMBDA d : d \in DOMAIN coords \/ size(tbb, d) >= 1)

\* _read_delayed, step 2: the dimensions of the image in TCZYX order.
ordered_dims_of(coords, tbb) ==
    SelectSeq(DEFAULT_DIMENSION_ORDER_LIST,
              LAMBDA d : d \in DOMAIN coords \/ size(tbb, d) > 1)

\* _read_delayed, step 4: the length of the array along each dimension.
shape_of(ordered_dims, coords, tbb) ==
    [i \in 1..Len(ordered_dims) |->
        IF ordered_dims[i] \in DOMAIN coords
        THEN Len(coords[ordered_dims[i]])
        ELSE size(tbb, ordered_dims[i])]

\* "Bgr" in self._pixel_types[0]
is_bgr(types) == types[0] \in BgrPixelTypes

\* _read_delayed, steps 4 to 6: the DataArray of delayed chunks, one per
\* index of the grid of the dimensions before Y and X.  built_in_scene
\* remembers the scene index that was current at construction.
delayed_array(ordered_dims, shape, coords, types, scene_index) ==
    [kind |-> "delayed",
     built_in_scene |-> scene_index,
     dims |-> IF is_bgr(types) THEN Append(ordered_dims, Samples)
              ELSE ordered_dims,
     shape |-> IF is_bgr(types) THEN shape \o <<3>> ELSE shape,
     chunk_shape |-> IF is_bgr(types) THEN LastTwo(shape) \o <<3>>
                     ELSE LastTwo(shape),
     coords |-> coords,
     index_dims |-> AllButLastTwo(ordered_dims),
     cells |-> [idx \in ndindex(AllButLastTwo(shape) \o <<1, 1>>) |->
                  [status |-> "pending", value |-> None]]]

\* A _read_delayed that calls each chunk task instead of wrapping it in
\* delayed.
read_delayed_result_eager(e, tbb, loaded, array) ==
    [err |-> e, tbb |-> tbb, loaded |-> loaded,
     issued |-> IF IsNone(array) THEN {}
                ELSE UNION {{[arr |-> 0, idx |-> idx, read |-> q] :
                                q \in array_builder(Val(array).index_dims,
                                                    idx, TRUE).issued} :
                            idx \in DOMAIN Val(array).cells},
     array |-> array]

\* The outcome of _read_delayed: [err, tbb, loaded, issued, array].  tbb is
\* _total_bounding_box afterwards, loaded tells whether self.metadata was
\* evaluated, issued are the decoder plane reads made while building (none:
\* every chunk is wrapped in delayed).
read_delayed_result(e, tbb, loaded, array) ==
    [err |-> e, tbb |-> tbb, loaded |-> loaded, issued |-> {},
     array |-> array]

\* _read_delayed from the assertion on the ordered dimensions on.
read_delayed_build(coords, tbb) ==
    IF LastTwo(ordered_dims_of(coords, tbb)) # <<SpatialY, SpatialX>>
    THEN read_delayed_result("AssertionError", tbb, TRUE, None)
    ELSE read_delayed_result("ok", tbb, TRUE,
            Some(delayed_array(ordered_dims_of(coords, tbb),
                               shape_of(ordered_dims_of(coords, tbb), coords, tbb),
                               coords, pixel_types, current_scene_index)))

\* _read_delayed from the call of _get_coords on.
read_delayed_coords(c, tbb) ==
    IF c.err # "ok"
    THEN read_delayed_result(c.err, tbb, TRUE, None)
    ELSE read_delayed_build(c.coords, tbb)

\* Reader._read_delayed in the reader's current state.
read_delayed ==
    IF /\ Cardinality(DOMAIN scenes_bounding_rectangle) > 0
       /\ current_scene_index \notin DOMAIN scenes_bounding_rectangle
    THEN read_delayed_result("AssertionError", total_bounding_box, FALSE, None)
    ELSE read_delayed_coords(
            get_coords(file.xml, current_scene_index,
                       dim_bounds_of(total_bounding_box,
                                     scenes_bounding_rectangle,
                                     current_scene_index)),
            dim_bounds_of(total_bounding_box, scenes_bounding_rectangle,
                          current_scene_index))

\* dask's compute of a whole delayed array: every chunk task in `attempted`
\* is run, those in `failing` meet a decoder failure; when one fails the
\* compute raises and returns no array.  [err, issued, array]
compute(arr, id, attempted, failing) ==
    LET run == [idx \in attempted |->
                   array_builder(arr.index_dims, idx, idx \notin failing)]
        issued == UNION {{[arr |-> id, idx |-> idx, read |-> r] :
                            r \in run[idx].issued} : idx \in attempted}
    IN IF \E idx \in attempted : run[idx].err # "ok"
       THEN [err |-> (CHOOSE e \in {run[idx].err : idx \in attempted} : e # "ok"),
             issued |-> issued, array |-> None]
       ELSE [err |-> "ok", issued |-> issued,
             array |-> Some([arr EXCEPT
                 !.kind = "immediate",
                 !.cells = [idx \in DOMAIN arr.cells |->
                               [status |-> "done", value |-> run[idx].value]]])]

\* ------------------------- pylibczirw_reader/reader.py: decoder handles

\* A mock context manager that closes the handle only on a normal exit.
with_open_leaking(h, body, raised) ==
    <<[ev |-> "open", h |-> h]>> \o body
    \o (IF raised THEN <<>> ELSE <<[ev |-> "close", h |-> h]>>)

\* `with open(self._path) as file: body`: the events of handle h, opened on
\* entry and closed on exit, also when the body raises.
with_open(h, body, raised) ==
    <<[ev |-> "open", h |-> h]>> \o body \o <<[ev |-> "close", h |-> h]>>

\* The metadata property: a handle is opened when _metadata is None.
metadata_handles(h) ==
    IF IsNone(metadata) THEN with_open(h, <<>>, FALSE) ELSE <<>>

\* The scenes property when _scenes is None: self.metadata is evaluated
\* inside the with block, once per scene id.
scenes_handles ==
    with_open(1, IF Len(scene_ids(file)) > 0 THEN metadata_handles(2) ELSE <<>>,
              compute_scenes(file).err # "ok")

\* _read_delayed: self.metadata is evaluated once the assertion on the
\* scene index has passed.
read_delayed_handles ==
    IF /\ Cardinality(DOMAIN scenes_bounding_rectangle) > 0
       /\ current_scene_index \notin DOMAIN scenes_bounding_rectangle
    THEN <<>>
    ELSE metadata_handles(1)

\* The chunk task: file.read inside its own with block.
array_builder_handles(h, index_dims, indices, ok) ==
    IF array_builder(index_dims, indices, ok).issued = {}
    THEN <<>>
    ELSE with_open(h, <<[ev |-> "read", h |-> h]>>, ~ok)

\* compute: the chunk tasks of `todo`, one after the other.
RECURSIVE compute_handles(_, _, _, _)
compute_handles(arr, todo, failing, h) ==
    IF todo = {}
    THEN <<>>
    ELSE LET idx == CHOOSE i \in todo : TRUE
         IN array_builder_handles(h, arr.index_dims, idx, idx \notin failing)
            \o compute_handles(arr, todo \ {idx}, failing, h + 1)

\* The handles an operation leaves open.
left_open(events) ==
    Cardinality({i \in DOMAIN events : events[i].ev = "open"})
    - Cardinality({i \in DOMAIN events : events[i].ev = "close"})

\* ------------------------------ pylibczirw_reader/reader.py: construction

\* A path: the file behind it, when the decoder accepts it.
Path(name, contents) == [name |-> name, contents |-> contents]

\* open(filepath) entered as a context manager: the decoder's handle on
\* the file, or the RuntimeError with which the decoder rejects the path.
open(filepath) ==
    IF IsNone(filepath.contents)
    THEN [err |-> "RuntimeError", handle |-> None]
    ELSE [err |-> "ok", handle |-> filepath.contents]

\* A handler that lets the decoder's error through.
translate_open_error_passing(e) == e

\* except RuntimeError: raise exceptions.UnsupportedFileFormatError(...)
translate_open_error(e) ==
    IF e = "RuntimeError" THEN "UnsupportedFileFormatError" ELSE e

\* Reader._is_supported_image(fs, path): [err, value]
is_supported_image(path) ==
    IF open(path).err # "ok"
    THEN [err |-> translate_open_error(open(path).err), value |-> None]
    ELSE [err |-> "ok", value |-> Some(TRUE)]

\* Reader.__init__(image): [err, reader], reader the fields of the new
\* object; when the constructor raises there is no object.
reader_init(image) ==
    IF open(image).err # "ok"
    THEN [err |-> translate_open_error(open(image).err), reader |-> None]
    ELSE [err |-> "ok",
          reader |-> Some([path |-> image.name,
                           total_bounding_box |-> Val(open(image).handle).bbox,
                           pixel_types |-> Val(open(image).handle).pixel_types,
                           scenes_bounding_rectangle |->
                               Val(open(image).handle).rects])]

\* ------------------------------------------------------------- the reader

\* Reader.__init__ on a file the decoder accepts.
Init ==
    /\ file \in Files
    /\ current_scene_index = 0
    /\ total_bounding_box = file.bbox
    /\ scenes_bounding_rectangle = file.rects
    /\ pixel_types = file.pixel_types
    /\ scenes = None
    /\ metadata = None
    /\ xarray_dask_data = None
    /\ xarray_data = None
    /\ arrays = <<>>
    /\ reads = {}
    /\ lastOp = "init"
    /\ err = "ok"
    /\ returned = None
    /\ handle_events = with_open(1, <<>>, FALSE)
    /\ open_handles = left_open(handle_events)
    /\ call = None
    /\ ret = None

\* The scenes property.
GetScenes ==
    /\ IsNone(scenes)
    /\ LET r == compute_scenes(file)
       IN /\ scenes' = r.value
          /\ err' = r.err
    /\ metadata' = IF Len(scene_ids(file)) > 0 THEN Some(file.xml) ELSE metadata
    /\ lastOp' = "scenes"
    /\ reads' = {}
    /\ returned' = None
    /\ handle_events' = scenes_handles
    /\ open_handles' = open_handles + left_open(scenes_handles)
    /\ UNCHANGED <<file, current_scene_index, total_bounding_box,
                   scenes_bounding_rectangle, pixel_types, xarray_dask_data,
                   xarray_data, arrays, call, ret>>

\* BaseReader.set_scene(scene_id) with an integer id: the id is checked
\* against self.scenes, then the current scene index is set and the cached
\* arrays are dropped (_reset_self).
SetScene(scene_id) ==
    LET r == IF IsNone(scenes) THEN compute_scenes(file)
             ELSE [err |-> "ok", value |-> scenes]
    IN /\ scenes' = r.value
       /\ metadata' = IF IsNone(scenes) /\ Len(scene_ids(file)) > 0
                      THEN Some(file.xml) ELSE metadata
       /\ handle_events' = IF IsNone(scenes) THEN scenes_handles ELSE <<>>
       /\ open_handles' = open_handles
                           + left_open(IF IsNone(scenes) THEN scenes_handles
                                       ELSE <<>>)
       /\ lastOp' = "set_scene"
       /\ IF r.err # "ok"
          THEN /\ err' = r.err
               /\ UNCHANGED <<current_scene_index, xarray_dask_data, xarray_data>>
          ELSE IF scene_id >= Len(Val(r.value))
          THEN /\ err' = "IndexError"
               /\ UNCHANGED <<current_scene_index, xarray_dask_data, xarray_data>>
          ELSE /\ err' = "ok"
               /\ current_scene_index' = scene_id
               /\ xarray_dask_data' = None
               /\ xarray_data' = None
       /\ reads' = {}
       /\ returned' = None
       /\ UNCHANGED <<file, total_bounding_box, scenes_bounding_rectangle,
                      pixel_types, arrays, call, ret>>

\* The xarray_dask_data property, read by the accessor named op: the cached
\* array, or the one _read_delayed builds, which is then cached.
xarray_dask_data_property(op) ==
    /\ lastOp' = op
    /\ IF ~IsNone(xarray_dask_data)
       THEN /\ returned' = xarray_dask_data
            /\ err' = "ok"
            /\ reads' = {}
            /\ handle_events' = <<>>
            /\ UNCHANGED <<total_bounding_box, metadata, arrays,
                           xarray_dask_data, open_handles>>
       ELSE /\ Len(arrays) < MaxArrays
            /\ handle_events' = read_delayed_handles
            /\ open_handles' = open_handles + left_open(read_delayed_handles)
            /\ LET r == read_delayed
               IN /\ total_bounding_box' = r.tbb
                  /\ metadata' = IF r.loaded THEN Some(file.xml) ELSE metadata
                  /\ reads' = r.issued
                  /\ err' = r.err
                  /\ IF r.err = "ok"
                     THEN /\ arrays' = Append(arrays, Val(r.array))
                          /\ xarray_dask_data' = Some(Len(arrays) + 1)
                          /\ returned' = Some(Len(arrays) + 1)
                     ELSE /\ returned' = None
                          /\ UNCHANGED <<arrays, xarray_dask_data>>
    /\ UNCHANGED <<file, current_scene_index, scenes_bounding_rectangle,
                   pixel_types, scenes, xarray_data, call, ret>>

\* The xarray_data property, read by the accessor named op: the cached
\* array, or the one _read_immediate returns, that is
\* _read_delayed().compute(); the result is cached and also replaces the
\* cached delayed array.  The decoder may fail plane reads during the call
\* when `fallible` holds.
xarray_data_property(op, fallible) ==
    /\ lastOp' = op
    /\ IF ~IsNone(xarray_data)
       THEN /\ returned' = xarray_data
            /\ err' = "ok"
            /\ reads' = {}
            /\ handle_events' = <<>>
            /\ UNCHANGED <<total_bounding_box, metadata, arrays,
                           xarray_dask_data, xarray_data, open_handles>>
       ELSE /\ Len(arrays) < MaxArrays
            /\ LET r == read_delayed
                   id == Len(arrays) + 1
               IN /\ total_bounding_box' = r.tbb
                  /\ metadata' = IF r.loaded THEN Some(file.xml) ELSE metadata
                  /\ IF r.err # "ok"
                     THEN /\ err' = r.err
                          /\ reads' = r.issued
                          /\ returned' = None
                          /\ handle_events' = read_delayed_handles
                          /\ open_handles' = open_handles
                                              + left_open(read_delayed_handles)
                          /\ UNCHANGED <<arrays, xarray_dask_data, xarray_data>>
                     ELSE \E attempted \in SUBSET DOMAIN Val(r.array).cells :
                          \E failing \in (IF fallible THEN SUBSET attempted
                                          ELSE {{}}) :
                            /\ failing = {} => attempted = DOMAIN Val(r.array).cells
                            /\ handle_events' =
                                  read_delayed_handles
                                  \o compute_handles(Val(r.array), attempted,
                                                     failing, 2)
                            /\ open_handles' = open_handles + left_open(handle_events')
                            /\ LET c == compute(Val(r.array), id, attempted, failing)
                               IN /\ err' = c.err
                                  /\ reads' = r.issued \cup c.issued
                                  /\ IF c.err = "ok"
                                     THEN /\ arrays' = Append(arrays, Val(c.array))
                                          /\ xarray_data' = Some(id)
                                          /\ xarray_dask_data' = Some(id)
                                          /\ returned' = Some(id)
                                     ELSE /\ returned' = None
                                          /\ UNCHANGED <<arrays, xarray_dask_data,
                                                         xarray_data>>
    /\ UNCHANGED <<file, current_scene_index, scenes_bounding_rectangle,
                   pixel_types, scenes, call, ret>>

\* The xarray_dask_data property when nothing is cached.
XarrayDaskData ==
    /\ IsNone(xarray_dask_data)
    /\ xarray_dask_data_property("xarray_dask_data")

\* The xarray_data property when nothing is cached.
XarrayData ==
    /\ IsNone(xarray_data)
    /\ xarray_data_property("xarray_data", TRUE)

\* The four mosaic accessors of the reader.
MosaicAccessors ==
    {"mosaic_xarray_dask_data", "mosaic_xarray_data",
     "_get_stitched_dask_mosaic", "_get_stitched_mosaic"}

\* Mosaic accessors that hand out the other property.
mosaic_delegate_swapped(accessor) ==
    IF accessor \in {"mosaic_xarray_dask_data", "_get_stitched_dask_mosaic"}
    THEN "xarray_data"
    ELSE "xarray_dask_data"

\* The property each mosaic accessor returns.
mosaic_delegate(accessor) ==
    IF accessor \in {"mosaic_xarray_dask_data", "_get_stitched_dask_mosaic"}
    THEN "xarray_dask_data"
    ELSE "xarray_data"

\* mosaic_xarray_dask_data, mosaic_xarray_data, _get_stitched_dask_mosaic
\* and _get_stitched_mosaic.  Decoder failures are explored through the
\* regular accessor, which runs the same code.
Mosaic(accessor) ==
    IF mosaic_delegate(accessor) = "xarray_dask_data"
    THEN xarray_dask_data_property(accessor)
    ELSE xarray_data_property(accessor, FALSE)

\* dask runs the task of one chunk of a delayed array the caller still
\* holds; a task that raises leaves the chunk unevaluated.
ForceChunk(a, idx, ok) ==
    /\ arrays[a].kind = "delayed"
    /\ arrays[a].cells[idx].status # "done"
    /\ LET r == array_builder(arrays[a].index_dims, idx, ok)
       IN /\ err' = r.err
          /\ reads' = {[arr |-> a, idx |-> idx, read |-> q] : q \in r.issued}
          /\ arrays' = [arrays EXCEPT ![a].cells[idx] =
                IF r.err = "ok"
                THEN [status |-> "done", value |-> r.value]
                ELSE @]
    /\ lastOp' = "compute_chunk"
    /\ returned' = None
    /\ handle_events' = array_builder_handles(1, arrays[a].index_dims, idx, ok)
    /\ open_handles' = open_handles + left_open(handle_events')
    /\ UNCHANGED <<file, current_scene_index, total_bounding_box,
                   scenes_bounding_rectangle, pixel_types, scenes, metadata,
                   xarray_dask_data, xarray_data, call, ret>>

Next ==
    \/ GetScenes
    \/ \E scene_id \in 0..3 : SetScene(scene_id)
    \/ XarrayDaskData
    \/ XarrayData
    \/ \E accessor \in MosaicAccessors : Mosaic(accessor)
    \/ \E a \in DOMAIN arrays : \E idx \in DOMAIN arrays[a].cells :
           \E ok \in BOOLEAN : ForceChunk(a, idx, ok)

Spec == Init /\ [][Next]_vars

\* ------------------------------------------------- the helper functions

\* The sequences over S of length at most n.
SeqsUpTo(S, n) == UNION {[1..k -> S] : k \in 0..n}

\* Channel elements with and without the Id and Name attributes, and
\* metadata documents with no channel group, one, or two.
ChannelElems ==
    {ChannelElem(<<>>),
     ChannelElem(("Id" :> "Channel:7")),
     ChannelElem(("Name" :> "DAPI")),
     ChannelElem(("Id" :> "Channel:7") @@ ("Name" :> "DAPI"))}
ChannelDocs ==
    {[Scenes |-> <<>>, Channels |-> cs, Scaling |-> <<>>] :
        cs \in {<<>>}
               \cup {<<g>> : g \in SeqsUpTo(ChannelElems, MaxChannels)}
               \cup {<<g, <<ChannelElem(("Name" :> "second"))>> >> :
                        g \in SeqsUpTo(ChannelElems, MaxChannels)}}

\* Dimension bounds without a channel dimension and with 0 to
\* MaxChannels + 1 channels.
DimsShapes ==
    {("Y" :> <<0, 2>>) @@ ("X" :> <<0, 2>>)}
    \cup {("C" :> <<0, n>>) @@ ("Y" :> <<0, 2>>) @@ ("X" :> <<0, 2>>) :
             n \in 0..(MaxChannels + 1)}

\* Distance elements: no Value child, a Value without text, a Value whose
\* text is not a number, a Value whose text is a number.
DistanceElems ==
    {[Id |-> id, Value |-> v] :
        id \in {"Z", "Y", "X"},
        v \in {None, Some([text |-> None]), Some([text |-> Some(OtherText)]),
               Some([text |-> Some(NumberText(2))])}}
ScalingDocs ==
    {[Scenes |-> <<>>, Channels |-> <<>>, Scaling |-> sc] :
        sc \in SeqsUpTo(DistanceElems, MaxScales)}

\* Subblock metadata fragments, and files as the list of their subblocks
\* (time index, channel index, metadata) of the first scene.
Fragments ==
    {Fragment(FALSE, None),
     Fragment(TRUE, None),
     Fragment(TRUE, Some([text |-> None])),
     Fragment(TRUE, Some([text |-> Some(BadTimeText)])),
     Fragment(TRUE, Some([text |-> Some(NaTText)])),
     Fragment(TRUE, Some([text |-> Some(TimeText(1))])),
     Fragment(TRUE, Some([text |-> Some(TimeText(3))]))}
Subblocks == [T : 0..1, C : 0..1, metadata : Fragments]
CziFiles == SeqsUpTo(Subblocks, MaxSubblocks)

\* Files of two scenes whose subblocks are well formed, of channel 0, and
\* carry an instant or no AcquisitionTime.
TimedSubblocks ==
    [T : 0..1, C : {0},
     metadata : {Fragment(TRUE, None),
                 Fragment(TRUE, Some([text |-> Some(TimeText(1))])),
                 Fragment(TRUE, Some([text |-> Some(TimeText(3))]))}]
SceneCziFiles == [0..1 -> SeqsUpTo(TimedSubblocks, MaxSubblocks)]

\* Paths of the files above, and two paths the decoder rejects (after
\* example.txt and s_1_t_1_c_1_z_1.ome.tiff).
Paths ==
    {Path(f.name, Some(f)) : f \in Files}
    \cup {Path("example.txt", None), Path("s_1_t_1_c_1_z_1.ome.tiff", None)}

ReaderVars == <<file, current_scene_index, total_bounding_box,
                scenes_bounding_rectangle, pixel_types, scenes, metadata,
                xarray_dask_data, xarray_data, arrays, lastOp, reads, err,
                returned, handle_events, open_handles>>

\* Each helper is a pure function: one call is made from the initial state
\* and its input and outcome are recorded.

\* get_channel_names(xml, scene_index, dims_shape)
CallGetChannelNames ==
    /\ IsNone(call)
    /\ \E xml \in ChannelDocs : \E scene_index \in 0..2 :
          \E dims_shape \in DimsShapes :
             /\ call' = Some([op |-> "get_channel_names", xml |-> xml,
                              scene_index |-> scene_index,
                              dims_shape |-> dims_shape])
             /\ ret' = Some([err |-> "ok",
                             value |-> get_channel_names(xml, scene_index,
                                                         dims_shape),
                             warned |-> channel_warning(xml, scene_index,
                                                        dims_shape)])
    /\ UNCHANGED ReaderVars

\* _single_physical_pixel_size(metadata, dimension, allow_none)
CallSinglePhysicalPixelSize ==
    /\ IsNone(call)
    /\ \E xml \in ScalingDocs : \E dimension \in {"Z", "Y", "X"} :
          \E allow_none \in BOOLEAN :
             /\ call' = Some([op |-> "_single_physical_pixel_size",
                              xml |-> xml, dimension |-> dimension,
                              allow_none |-> allow_none])
             /\ ret' = Some(single_physical_pixel_size(xml, dimension,
                                                       allow_none))
    /\ UNCHANGED ReaderVars

\* get_physical_pixel_sizes(metadata)
CallGetPhysicalPixelSizes ==
    /\ IsNone(call)
    /\ \E xml \in ScalingDocs :
          /\ call' = Some([op |-> "get_physical_pixel_sizes", xml |-> xml])
          /\ ret' = Some(get_physical_pixel_sizes(xml))
    /\ UNCHANGED ReaderVars

\* _extract_acquisition_time_from_subblock_metadata(subblock_metadata)
CallExtractAcquisitionTime ==
    /\ IsNone(call)
    /\ \E subblock_metadata \in Fragments :
          /\ call' = Some([op |->
                              "_extract_acquisition_time_from_subblock_metadata",
                           subblock_metadata |-> subblock_metadata])
          /\ ret' = Some(extract_acquisition_time_from_subblock_metadata(
                              subblock_metadata))
    /\ UNCHANGED ReaderVars

\* time_between_subblocks(czi, start_subblock_index, end_subblock_index)
CallTimeBetweenSubblocks ==
    /\ IsNone(call)
    /\ \E czi \in CziFiles : \E start_subblock_index \in 0..1 :
          \E end_subblock_index \in 0..1 :
             /\ call' = Some([op |-> "time_between_subblocks", czi |-> czi,
                              start |-> start_subblock_index,
                              end |-> end_subblock_index])
             /\ ret' = Some(time_between_subblocks(czi, start_subblock_index,
                                                   end_subblock_index))
    /\ UNCHANGED ReaderVars

\* elapsed_time_all_subblocks(czi)
CallElapsedTimeAllSubblocks ==
    /\ IsNone(call)
    /\ \E czi \in CziFiles :
          /\ call' = Some([op |-> "elapsed_time_all_subblocks", czi |-> czi])
          /\ ret' = Some(elapsed_time_all_subblocks(czi))
    /\ UNCHANGED ReaderVars

\* set_scene(scene) followed by the timelapse interval and the total time
\* duration of the standard metadata.
CallStandardMetadata ==
    /\ IsNone(call)
    /\ \E czi \in SceneCziFiles : \E scene \in 0..1 :
          /\ call' = Some([op |-> "standard_metadata", czi |-> czi,
                           scene |-> scene])
          /\ ret' = Some([err |-> "ok",
                          interval |-> timelapse_interval(czi, scene),
                          duration |-> total_time_duration(czi, scene)])
    /\ UNCHANGED ReaderVars

\* Reader(image)
CallReaderInit ==
    /\ IsNone(call)
    /\ \E image \in Paths :
          /\ call' = Some([op |-> "__init__", image |-> image])
          /\ ret' = Some(reader_init(image))
    /\ UNCHANGED ReaderVars

\* Reader._is_supported_image(fs, path)
CallIsSupportedImage ==
    /\ IsNone(call)
    /\ \E path \in Paths :
          /\ call' = Some([op |-> "_is_supported_image", path |-> path])
          /\ ret' = Some(is_supported_image(path))
    /\ UNCHANGED ReaderVars

HelperInit ==
    /\ Init
    /\ file.name = "no_scenes"

HelperNext ==
    \/ CallGetChannelNames
    \/ CallSinglePhysicalPixelSize
    \/ CallGetPhysicalPixelSizes
    \/ CallExtractAcquisitionTime
    \/ CallTimeBetweenSubblocks
    \/ CallElapsedTimeAllSubblocks
    \/ CallStandardMetadata
    \/ CallReaderInit
    \/ CallIsSupportedImage

HelperSpec == HelperInit /\ [][HelperNext]_vars

\* ============================================================ properties

HasScenes == Len(file.scene_ids) > 0

\* The raw decoder scene index of the caller-visible ordinal scene index:
\* ordinals follow the decoder's raw index order.
RawSceneIndex(ordinal) == file.scene_ids[ordinal + 1]

\* The highest-resolution bounding rectangle of the scene with that ordinal.
SceneRect(ordinal) == file.rects[RawSceneIndex(ordinal)]

DelayedOps ==
    {"xarray_dask_data", "mosaic_xarray_dask_data", "_get_stitched_dask_mosaic"}
ImmediateOps == {"xarray_data", "mosaic_xarray_data", "_get_stitched_mosaic"}
BuildOps == DelayedOps \cup ImmediateOps

DoneCells(a) == {idx \in DOMAIN arrays[a].cells :
                    arrays[a].cells[idx].status = "done"}

\* The plane selector of a grid index: {d: idx[i]} over the array's
\* dimensions before Y and X.
PlaneOf(a, idx) ==
    [d \in Range(arrays[a].index_dims) |->
        idx[CHOOSE i \in 1..Len(arrays[a].index_dims) :
                arrays[a].index_dims[i] = d]]

\* C1: a chunk of a delayed array built while scene A was current is read
\* from the decoder with scene A and scene A's bounding rectangle, whatever
\* the current scene is when the chunk is forced.
C1_ChunkReadsSceneOfConstruction ==
    \A a \in DOMAIN arrays : \A idx \in DoneCells(a) :
        HasScenes =>
            LET px == Val(arrays[a].cells[idx].value).pixels
                A == arrays[a].built_in_scene
            IN /\ px.scene = Some(A)
               /\ px.roi = Some(scenes_bounding_rectangle[A])

\* C2: an array built while scene B is current has Y and X coordinates and
\* shape of the lengths of scene B's highest-resolution rectangle.
C2_FreshBuildUsesCurrentSceneRect ==
    \A a \in DOMAIN arrays :
        HasScenes =>
            LET B == arrays[a].built_in_scene
                n == Len(arrays[a].dims)
            IN /\ Len(arrays[a].coords[SpatialY]) = SceneRect(B).h
               /\ Len(arrays[a].coords[SpatialX]) = SceneRect(B).w
               /\ arrays[a].shape[n - 1] = SceneRect(B).h
               /\ arrays[a].shape[n] = SceneRect(B).w

\* C3: with a valid ordinal scene index current, building the array never
\* fails the "scene index is in the scene-rectangle map" assertion, also
\* when the map holds only non-zero raw indices.
C3_OrdinalIsTranslatedToRawIndex ==
    (/\ lastOp \in BuildOps
     /\ HasScenes
     /\ current_scene_index < Len(file.scene_ids))
        => err # "AssertionError"

\* C4: a forced chunk of a delayed array of a scene equals the chunk at the
\* same grid index of the array the immediate path returns for that scene,
\* and the two arrays have the same shape, dims and coordinates.
C4_LazyEqualsImmediate ==
    \A a \in DOMAIN arrays : \A m \in DOMAIN arrays :
        (/\ arrays[a].kind = "delayed"
         /\ arrays[m].kind = "immediate"
         /\ arrays[a].built_in_scene = arrays[m].built_in_scene)
            => /\ arrays[a].shape = arrays[m].shape
               /\ arrays[a].dims = arrays[m].dims
               /\ arrays[a].coords = arrays[m].coords
               /\ \A idx \in DoneCells(a) :
                    arrays[a].cells[idx].value = arrays[m].cells[idx].value

\* C5: a decoder read failure fails the whole assembly: every array the
\* immediate path returned holds, in every grid cell, the plane the decoder
\* read for that cell; a forced chunk always holds a decoded plane; and an
\* operation during which a read failed raised RuntimeError and returned no
\* array.
C5_NoPartialArray ==
    /\ \A a \in DOMAIN arrays :
          arrays[a].kind = "immediate" =>
              \A idx \in DOMAIN arrays[a].cells :
                  /\ arrays[a].cells[idx].status = "done"
                  /\ ~IsNone(arrays[a].cells[idx].value)
                  /\ Val(arrays[a].cells[idx].value).pixels.plane = PlaneOf(a, idx)
    /\ \A a \in DOMAIN arrays : \A idx \in DoneCells(a) :
          ~IsNone(arrays[a].cells[idx].value)
    /\ (\E q \in reads : ~q.read.ok) =>
          /\ err = "RuntimeError"
          /\ lastOp \in ImmediateOps => (IsNone(xarray_data) /\ IsNone(returned))

\* A read of one cell succeeded, the read of another failed, and the
\* immediate path returned no array.
C5_Witness ==
    /\ lastOp = "xarray_data"
    /\ err = "RuntimeError"
    /\ IsNone(xarray_data)
    /\ \E q \in reads : q.read.ok
    /\ \E q \in reads : ~q.read.ok

\* C6: building the delayed array issues no decoder plane read; plane reads
\* are issued only by forcing a chunk or by the immediate path; and the
\* array the immediate path returned has no pending chunk, each of its
\* cells having been read by that call.
C6_ReadsOnlyWhenForced ==
    /\ lastOp \in DelayedOps => reads = {}
    /\ reads # {} => lastOp \in {"compute_chunk"} \cup ImmediateOps
    /\ ~IsNone(xarray_data) =>
          \A idx \in DOMAIN arrays[Val(xarray_data)].cells :
              arrays[Val(xarray_data)].cells[idx].status = "done"
    /\ (lastOp \in ImmediateOps /\ err = "ok"
          /\ (lastOp = "xarray_data" \/ reads # {})) =>
          /\ {q.idx : q \in reads} = DOMAIN arrays[Val(xarray_data)].cells
          /\ \A q \in reads : q.read.ok

\* A delayed array with several chunks was just built and none is read.
C6_Witness ==
    /\ lastOp = "xarray_dask_data"
    /\ err = "ok"
    /\ ~IsNone(xarray_dask_data)
    /\ Cardinality(DOMAIN arrays[Val(xarray_dask_data)].cells) > 1
    /\ DoneCells(Val(xarray_dask_data)) = {}

\* The raw scene indices as a set, and the i-th smallest of them.
RawIds == Range(file.scene_ids)
IthSmallestRawId(i) ==
    CHOOSE r \in RawIds : Cardinality({q \in RawIds : q < r}) = i - 1

\* C7: reader.scenes lists one name per raw scene index, the i-th name
\* being that of the scene with the i-th smallest raw index.
C7_ScenesInRawIndexOrder ==
    (~IsNone(scenes) /\ HasScenes) =>
        /\ Len(Val(scenes)) = Cardinality(RawIds)
        /\ \A i \in 1..Cardinality(RawIds) :
              Val(scenes)[i] = scene_name(file.xml, IthSmallestRawId(i)).value

\* Names P1, P2, P3 at raw indices 2, 0, 1 are exposed as (P2, P3, P1).
C7_Witness ==
    /\ file.name = "three_scenes"
    /\ scenes = Some(<<"P2", "P3", "P1">>)

\* C8: the ordinal-to-scene mapping is a bijection between the ordinals
\* 0..N-1 and the raw scene indices (a single default scene when the file
\* has none), and once computed reader.scenes never changes.
C8_Bijective ==
    ~IsNone(scenes) =>
        /\ Len(Val(scenes)) = (IF HasScenes THEN Cardinality(RawIds) ELSE 1)
        /\ \A i, j \in 1..Len(file.scene_ids) :
              i # j => RawSceneIndex(i - 1) # RawSceneIndex(j - 1)
C8_Fixed == ~IsNone(scenes) => scenes' = scenes
C8_SceneMappingBijectiveAndFixed == [](C8_Bijective) /\ [][C8_Fixed]_vars

\* The scene was changed and arrays were read after scenes was computed.
C8_Witness ==
    /\ ~IsNone(scenes)
    /\ current_scene_index > 0
    /\ Len(arrays) = MaxArrays
    /\ \E a \in DOMAIN arrays : DoneCells(a) # {}

\* The Scene elements of the metadata with Index = raw.
SceneElems(raw) ==
    {k \in DOMAIN file.xml.Scenes :
        /\ "Index" \in DOMAIN file.xml.Scenes[k].attrib
        /\ file.xml.Scenes[k].attrib["Index"] = ToString(raw)}
SceneMetadataUnique == \A raw \in RawIds : Cardinality(SceneElems(raw)) = 1
ExpectedSceneName(raw) ==
    LET e == file.xml.Scenes[CHOOSE k \in SceneElems(raw) : TRUE]
        base == IF "Name" \in DOMAIN e.attrib THEN e.attrib["Name"]
                ELSE ToString(raw)
    IN IF e.Shape # <<>> /\ "Name" \in DOMAIN e.Shape[1].attrib
       THEN base \o "-" \o e.Shape[1].attrib["Name"]
       ELSE base

\* C9: the name of raw scene i is the Name of the unique Scene element with
\* Index=i (the string of i without a Name), followed by "-" and the Shape
\* child's Name when there is one; when some raw index has not exactly one
\* Scene element, UnsupportedMetadataError is raised; a file with no scenes
\* exposes the single name "Image:0".
C9_SceneNames ==
    /\ ~IsNone(scenes) =>
          IF HasScenes
          THEN /\ SceneMetadataUnique
               /\ Val(scenes) = [i \in 1..Len(file.scene_ids) |->
                                    ExpectedSceneName(file.scene_ids[i])]
          ELSE Val(scenes) = <<"Image:0">>
    /\ (lastOp \in {"scenes", "set_scene"} /\ HasScenes /\ ~SceneMetadataUnique)
          => (err = "UnsupportedMetadataError" /\ IsNone(scenes))

\* A name with a Shape name appended and a name that is the index's string.
C9_Witness ==
    /\ file.name = "nonzero_czi_index"
    /\ scenes = Some(<<"P1-D4", "2">>)

\* Whether the dimension has an extent of more than 1 in the bounding box.
ExtentAboveOne(d) ==
    /\ d \in DOMAIN total_bounding_box
    /\ total_bounding_box[d][2] - total_bounding_box[d][1] > 1

\* The canonical order restricted to the dimensions with a coordinate array
\* or an extent above 1.
RestrictedOrder(coords) ==
    SelectSeq(<<"T", "C", "Z", "Y", "X">>,
              LAMBDA d : d \in DOMAIN coords \/ ExtentAboveOne(d))

\* What _get_coords returns in the current state once the scene's bounds
\* are in the bounding box.
CurrentCoords == get_coords(file.xml, current_scene_index, total_bounding_box)

\* A build whose restricted order does not end with (Y, X) fails with an
\* assertion and returns no array.
BuildWithoutYXFails ==
    (/\ lastOp \in BuildOps
     /\ err \in {"ok", "AssertionError"}
     /\ ~HasScenes
     /\ LastTwo(RestrictedOrder(CurrentCoords.coords)) # <<"Y", "X">>)
        => (err = "AssertionError" /\ arrays = <<>>)

\* C10 as stated: every array's dimension order is exactly the restricted
\* canonical order and ends with (Y, X); otherwise the read fails.
C10_DimsAreRestrictedOrder ==
    /\ \A a \in DOMAIN arrays :
          /\ arrays[a].dims = RestrictedOrder(arrays[a].coords)
          /\ LastTwo(arrays[a].dims) = <<"Y", "X">>
    /\ BuildWithoutYXFails

\* C10 as amended: for Bgr pixel types the Samples dimension follows the
\* restricted canonical order, which itself ends with (Y, X).
C10_DimsAreRestrictedOrderThenSamples ==
    /\ \A a \in DOMAIN arrays :
          /\ arrays[a].dims =
                RestrictedOrder(arrays[a].coords)
                \o (IF file.pixel_types[0] \in {"Bgr24", "Bgr48", "Bgr96Float"}
                    THEN <<"S">> ELSE <<>>)
          /\ LastTwo(RestrictedOrder(arrays[a].coords)) = <<"Y", "X">>
    /\ BuildWithoutYXFails

\* A colour image whose T extent is 1: the array's dims are (Y, X, S).
C10_Witness ==
    /\ arrays # <<>>
    /\ arrays[1].dims = <<"Y", "X", "S">>
    /\ "T" \in DOMAIN total_bounding_box

\* The Distance records of the metadata for a dimension, and the pixel
\* size of a dimension that has exactly one.
ScaleRecords(d) ==
    {k \in DOMAIN file.xml.Scaling : file.xml.Scaling[k].Id = d}
PixelSize(d) ==
    Val(Val(file.xml.Scaling[CHOOSE k \in ScaleRecords(d) : TRUE].Value).text).value

\* The bounds (start, end) of a spatial dimension an array was built with.
BuiltBounds(a, d) ==
    IF HasScenes /\ d = "X"
    THEN <<file.rects[arrays[a].built_in_scene].x,
           file.rects[arrays[a].built_in_scene].x
             + file.rects[arrays[a].built_in_scene].w>>
    ELSE IF HasScenes /\ d = "Y"
    THEN <<file.rects[arrays[a].built_in_scene].y,
           file.rects[arrays[a].built_in_scene].y
             + file.rects[arrays[a].built_in_scene].h>>
    ELSE file.bbox[d]

\* The spatial dimensions in the bounds with a resolvable pixel size.
ScaledSpatialDims ==
    {d \in {"Z", "Y", "X"} :
        /\ d \in DOMAIN file.bbox \/ (HasScenes /\ d \in {"Y", "X"})
        /\ Cardinality(ScaleRecords(d)) = 1}

C16_PlaneHasChunkShape ==
    \A a \in DOMAIN arrays :
        /\ arrays[a].chunk_shape =
              <<Len(arrays[a].coords["Y"]), Len(arrays[a].coords["X"])>>
              \o (IF file.pixel_types[0] \in {"Bgr24", "Bgr48", "Bgr96Float"}
                  THEN <<3>> ELSE <<>>)
        /\ file.pixel_types[0] \in {"Bgr24", "Bgr48", "Bgr96Float"} =>
              arrays[a].dims = SubSeq(arrays[a].dims, 1, Len(arrays[a].dims) - 3)
                               \o <<"Y", "X", "S">>
        /\ \A idx \in DoneCells(a) :
              Val(arrays[a].cells[idx].value).shape = arrays[a].chunk_shape

\* C17: each mosaic accessor returns the array the regular accessor
\* returns: mosaic_xarray_dask_data and _get_stitched_dask_mosaic the array
\* of xarray_dask_data, mosaic_xarray_data and _get_stitched_mosaic the
\* in-memory array of xarray_data, with the shape, dims and coordinates of
\* the regular view of the current scene.
C17_MosaicIsRegularView ==
    (lastOp \in MosaicAccessors /\ err = "ok") =>
        /\ ~IsNone(returned)
        /\ lastOp \in {"mosaic_xarray_dask_data", "_get_stitched_dask_mosaic"}
              => returned = xarray_dask_data
        /\ lastOp \in {"mosaic_xarray_data", "_get_stitched_mosaic"}
              => (returned = xarray_data
                  /\ arrays[Val(returned)].kind = "immediate")
        /\ read_delayed.err = "ok"
        /\ arrays[Val(returned)].shape = Val(read_delayed.array).shape
        /\ arrays[Val(returned)].dims = Val(read_delayed.array).dims
        /\ arrays[Val(returned)].coords = Val(read_delayed.array).coords

\* A mosaic accessor returned, in a scene other than the first, an array
\* that a regular accessor had built before.
C17_Witness ==
    /\ lastOp \in MosaicAccessors
    /\ err = "ok"
    /\ current_scene_index > 0
    /\ ~IsNone(returned)
    /\ reads = {}
    /\ arrays[Val(returned)].kind = "immediate"

\* Whether the helper function called is op.
Called(op) == ~IsNone(call) /\ Val(call).op = op

Min(a, b) == IF a <= b THEN a ELSE b

\* The channel group get_channel_names was asked about: the group of the
\* scene, or the first group when the scene has none.
SelectedGroup ==
    IF Val(call).scene_index < Len(Val(call).xml.Channels)
    THEN Val(call).xml.Channels[Val(call).scene_index + 1]
    ELSE Val(call).xml.Channels[1]

\* The number of channels in the pixel data: size(dims_shape, Channel).
ChannelsInData ==
    IF "C" \in DOMAIN Val(call).dims_shape
    THEN Val(call).dims_shape["C"][2] - Val(call).dims_shape["C"][1]
    ELSE -1

\* C12: with at least one channel group, the list get_channel_names returns
\* has min(channels in the selected group, channels in the data) names; a
\* warning is logged exactly when the metadata declares more channels than
\* the data has.
C12_ChannelListLength ==
    (Called("get_channel_names") /\ Len(Val(call).xml.Channels) > 0) =>
        /\ ~IsNone(Val(ret).value)
        /\ Len(Val(Val(ret).value)) = Min(Len(SelectedGroup), ChannelsInData)
        /\ Val(ret).warned <=> (Len(SelectedGroup) > ChannelsInData)

\* The name the rule gives the channel at a 0-based position of its group.
ExpectedChannelName(channel, scene_index, position) ==
    IF "Name" \in DOMAIN channel.attrib THEN channel.attrib["Name"]
    ELSE IF "Id" \in DOMAIN channel.attrib THEN channel.attrib["Id"]
    ELSE "Channel:" \o ToString(scene_index) \o ":" \o ToString(position)

\* C13: each returned channel name is the channel's Name attribute if
\* present, otherwise its Id attribute if present, otherwise
\* "Channel:{scene_index}:{position}" with its 0-based position in the group.
C13_ChannelNamePriority ==
    (Called("get_channel_names") /\ ~IsNone(Val(ret).value)) =>
        \A i \in DOMAIN Val(Val(ret).value) :
            Val(Val(ret).value)[i] =
                ExpectedChannelName(SelectedGroup[i], Val(call).scene_index, i - 1)

\* For scene 1, a channel named by its Id and one named by its position.
C13_Witness ==
    /\ Called("get_channel_names")
    /\ Val(call).scene_index = 1
    /\ Val(ret).value = Some(<<"Channel:7", "Channel:1:1">>)

\* The number of Distance records of a document for a dimension.
CountScales(xml, d) ==
    Cardinality({k \in DOMAIN xml.Scaling : xml.Scaling[k].Id = d})

\* C14: the scale lookup returns a value only with exactly one record;
\* with none it returns None if allow_none and raises
\* UnsupportedMetadataError otherwise; with several it always raises
\* UnsupportedMetadataError.  get_physical_pixel_sizes gives Z = None for a
\* missing Z record and raises for a missing Y or X record.
C14_ScaleRecordCount ==
    /\ Called("_single_physical_pixel_size") =>
          /\ (CountScales(Val(call).xml, Val(call).dimension) = 0
              /\ Val(call).allow_none)
                => Val(ret) = [err |-> "ok", value |-> None]
          /\ (CountScales(Val(call).xml, Val(call).dimension) = 0
              /\ ~Val(call).allow_none)
                => Val(ret).err = "UnsupportedMetadataError"
          /\ CountScales(Val(call).xml, Val(call).dimension) > 1
                => Val(ret).err = "UnsupportedMetadataError"
          /\ (Val(ret).err = "ok" /\ ~IsNone(Val(ret).value))
                => CountScales(Val(call).xml, Val(call).dimension) = 1
    /\ Called("get_physical_pixel_sizes") =>
          /\ (CountScales(Val(call).xml, "Z") = 0 /\ Val(ret).err = "ok")
                => IsNone(Val(ret).Z)
          /\ (CountScales(Val(call).xml, "Y") = 0
              \/ CountScales(Val(call).xml, "X") = 0)
                => Val(ret).err # "ok"
          /\ (CountScales(Val(call).xml, "Z") = 0
              /\ CountScales(Val(call).xml, "Y") = 0)
                => Val(ret).err = "UnsupportedMetadataError"

\* Pixel sizes of a document with a Y and an X record and no Z record.
C14_Witness ==
    /\ Called("get_physical_pixel_sizes")
    /\ CountScales(Val(call).xml, "Z") = 0
    /\ Val(ret) = [err |-> "ok", Z |-> None, Y |-> Some(2), X |-> Some(2)]

\* The single Distance record of the document for the dimension asked.
TheScale ==
    Val(call).xml.Scaling[CHOOSE k \in DOMAIN Val(call).xml.Scaling :
                              Val(call).xml.Scaling[k].Id = Val(call).dimension]

\* C15: with exactly one scale record that carries no parseable number (no
\* Value element, no text, or a text that is not a number) the lookup
\* raises UnsupportedMetadataError and no other error.
C15_UnparseableScale ==
    (/\ Called("_single_physical_pixel_size")
     /\ CountScales(Val(call).xml, Val(call).dimension) = 1
     /\ \/ IsNone(TheScale.Value)
        \/ IsNone(Val(TheScale.Value).text)
        \/ ~Val(Val(TheScale.Value).text).numeric)
        => Val(ret).err = "UnsupportedMetadataError"

\* The instants a list of subblocks carries: one per subblock whose
\* metadata is well formed and has an AcquisitionTime that parses.
HasInstant(b) ==
    /\ b.metadata.wellformed
    /\ ~IsNone(b.metadata.AcquisitionTime)
    /\ ~IsNone(Val(b.metadata.AcquisitionTime).text)
    /\ Val(Val(b.metadata.AcquisitionTime).text).parses = "instant"
InstantOf(b) == Val(Val(b.metadata.AcquisitionTime).text).t
InstantsAt(czi, t) ==
    {InstantOf(czi[i]) : i \in {j \in DOMAIN czi : czi[j].T = t /\ HasInstant(czi[j])}}
SetMin(S) == CHOOSE m \in S : \A n \in S : m <= n
SetMax(S) == CHOOSE m \in S : \A n \in S : n <= m

\* C18: time_between returns None when one of the two time indices has no
\* subblock with a parseable timestamp, and otherwise the earliest
\* parseable timestamp at the end index minus the earliest at the start
\* index, in milliseconds.
C18_TimeBetweenEarliest ==
    Called("time_between_subblocks") =>
        /\ Val(ret).err = "ok"
        /\ Val(ret).value =
              IF \/ InstantsAt(Val(call).czi, Val(call).start) = {}
                 \/ InstantsAt(Val(call).czi, Val(call).end) = {}
              THEN None
              ELSE Some([nan |-> FALSE,
                         ms |-> SetMin(InstantsAt(Val(call).czi, Val(call).end))
                                - SetMin(InstantsAt(Val(call).czi, Val(call).start))])

\* C19: elapsed_time_all returns None with fewer than two parseable
\* timestamps among the subblocks, and otherwise the largest minus the
\* smallest of them in milliseconds.
C19_ElapsedMaxMinusMin ==
    Called("elapsed_time_all_subblocks") =>
        /\ Val(ret).err = "ok"
        /\ Val(ret).value =
              IF Cardinality({i \in DOMAIN Val(call).czi :
                                 HasInstant(Val(call).czi[i])}) < 2
              THEN None
              ELSE Some([nan |-> FALSE,
                         ms |-> SetMax(InstantsAt(Val(call).czi, 0)
                                       \cup InstantsAt(Val(call).czi, 1))
                                - SetMin(InstantsAt(Val(call).czi, 0)
                                         \cup InstantsAt(Val(call).czi, 1))])

\* C20: extracting the acquisition time of a fragment never raises; it
\* returns the parsed instant when the text parses and None for every other
\* fragment, a fragment that is not well formed included.
C20_ExtractNeverRaises ==
    Called("_extract_acquisition_time_from_subblock_metadata") =>
        /\ Val(ret).err = "ok"
        /\ Val(ret).value =
              IF HasInstant([metadata |-> Val(call).subblock_metadata])
              THEN Some([nat |-> FALSE,
                         t |-> InstantOf([metadata |-> Val(call).subblock_metadata])])
              ELSE None

\* C21: after set_scene(i) the timelapse interval and the total time
\* duration are those computed from the subblocks of scene i: a scene with a
\* single timepoint reports None for both also when another scene of the
\* file has two.
C21_TimesOfSelectedScene ==
    Called("standard_metadata") =>
        /\ Val(ret).interval =
              time_between_subblocks(Val(call).czi[Val(call).scene], 0, 1)
        /\ Val(ret).duration =
              elapsed_time_all_subblocks(Val(call).czi[Val(call).scene])
        /\ Len(Val(call).czi[Val(call).scene]) = 1 =>
              /\ IsNone(Val(ret).interval.value)
              /\ IsNone(Val(ret).duration.value)

\* C22: constructing a Reader on a path the decoder rejects raises
\* UnsupportedFileFormatError and produces no reader, and on any other path
\* it produces one; _is_supported_image raises the same error for a
\* rejected path and returns True otherwise.
C22_RejectedPathIsUnsupportedFormat ==
    /\ Called("__init__") =>
          IF IsNone(Val(call).image.contents)
          THEN /\ Val(ret).err = "UnsupportedFileFormatError"
               /\ IsNone(Val(ret).reader)
          ELSE /\ Val(ret).err = "ok"
               /\ ~IsNone(Val(ret).reader)
    /\ Called("_is_supported_image") =>
          IF IsNone(Val(call).path.contents)
          THEN /\ Val(ret).err = "UnsupportedFileFormatError"
               /\ IsNone(Val(ret).value)
          ELSE /\ Val(ret).err = "ok"
               /\ Val(ret).value = Some(TRUE)

\* The constructor was called on a path the decoder rejects.
C22_Witness ==
    /\ Called("__init__")
    /\ IsNone(Val(call).image.contents)
    /\ Val(ret).err = "UnsupportedFileFormatError"

\* The index tuples range(n_1) x ... x range(n_k) over the lengths of the
\* array's dimensions before Y and X, each followed by the two zeros of
\* the block grid's Y and X axes.
GridIndices(a) ==
    LET k == Len(arrays[a].index_dims)
    IN {idx \in [1..(k + 2) -> 0..SeqMax(arrays[a].shape)] :
           /\ \A j \in 1..k : idx[j] < arrays[a].shape[j]
           /\ idx[k + 1] = 0
           /\ idx[k + 2] = 0}

\* The plane selector {d_j: idx[j]}.
Selector(a, idx) ==
    [d \in Range(arrays[a].index_dims) |->
        idx[CHOOSE j \in 1..Len(arrays[a].index_dims) :
                arrays[a].index_dims[j] = d]]

\* The array an immediate accessor has just built by forcing every chunk.
JustForced ==
    /\ lastOp \in ImmediateOps
    /\ err = "ok"
    /\ reads # {}

\* C23: forcing the whole array issues exactly one decoder plane read for
\* each index tuple of the grid of the non-spatial dimensions, with the
\* plane selector {d_j: idx[j]}, and places that plane at block position
\* idx; distinct cells have distinct selectors.
C23_OneReadPerGridCell ==
    JustForced =>
        LET a == Val(xarray_data)
        IN /\ DOMAIN arrays[a].cells = GridIndices(a)
           /\ \A idx \in GridIndices(a) :
                 /\ Cardinality({q \in reads : q.idx = idx}) = 1
                 /\ \A q \in reads :
                       q.idx = idx => q.read.plane = Selector(a, idx)
                 /\ Val(arrays[a].cells[idx].value).pixels.plane
                       = Selector(a, idx)
           /\ \A q \in reads : q.idx \in GridIndices(a)
           /\ \A i1, i2 \in GridIndices(a) :
                 i1 # i2 => Selector(a, i1) # Selector(a, i2)
           /\ \A q1, q2 \in reads :
                 q1 # q2 => q1.read.plane # q2.read.plane

\* An array with two dimensions before Y and X and two planes was forced.
C23_Witness ==
    /\ JustForced
    /\ Len(arrays[Val(xarray_data)].index_dims) = 2
    /\ Cardinality(reads) = 2

\* C24: in a file with scene rectangles every plane read is issued with
\* the active scene and that scene's highest-resolution rectangle as roi,
\* the rectangle the Y and X coordinate lengths come from, so that every
\* plane has the Y/X extent of the declared chunk; in a file without scene
\* rectangles every plane read is issued with scene None and roi None.
C24_ReadsUseActiveSceneRect ==
    /\ \A q \in reads :
          IF HasScenes
          THEN /\ q.read.scene = Some(RawSceneIndex(current_scene_index))
               /\ q.read.roi = Some(SceneRect(current_scene_index))
               /\ q.arr \in DOMAIN arrays =>
                     /\ Len(arrays[q.arr].coords[SpatialY]) = Val(q.read.roi).h
                     /\ Len(arrays[q.arr].coords[SpatialX]) = Val(q.read.roi).w
          ELSE q.read.scene = None /\ q.read.roi = None
    /\ \A a \in DOMAIN arrays : \A idx \in DoneCells(a) :
          Val(arrays[a].cells[idx].value).shape = arrays[a].chunk_shape

\* C25: get_channel_names returns None exactly when the metadata has no
\* channel group; otherwise the names are those of the leading channels of
\* the group at position scene_index when there is one, and of the first
\* group for every larger scene_index.
C25_ChannelGroupOfScene ==
    Called("get_channel_names") =>
        /\ IsNone(Val(ret).value) <=> Len(Val(call).xml.Channels) = 0
        /\ ~IsNone(Val(ret).value) =>
              LET group == IF Val(call).scene_index < Len(Val(call).xml.Channels)
                           THEN Val(call).xml.Channels[Val(call).scene_index + 1]
                           ELSE Val(call).xml.Channels[1]
                  names == Val(Val(ret).value)
              IN /\ Len(names) <= Len(group)
                 /\ \A i \in DOMAIN names :
                       names[i] = ExpectedChannelName(group[i],
                                                      Val(call).scene_index, i - 1)

\* Two groups and scene index 2: the names are those of the first group.
C25_Witness ==
    /\ Called("get_channel_names")
    /\ Val(call).scene_index = 2
    /\ Len(Val(call).xml.Channels) = 2
    /\ Val(ret).value = Some(<<"DAPI", "Channel:7">>)

\* The cells of all arrays, and the pixels the decoder holds for a cell of
\* an array read in the current scene.
AllCells == UNION {{<<a, idx>> : idx \in DOMAIN arrays[a].cells} :
                      a \in DOMAIN arrays}
PixelsInCurrentScene(a, idx) ==
    [scene |-> IF HasScenes THEN Some(current_scene_index) ELSE None,
     plane |-> Selector(a, idx),
     roi |-> IF HasScenes THEN Some(file.rects[current_scene_index]) ELSE None]

\* C26: forcing a chunk writes only that chunk, with the plane that its own
\* selector, the current scene and the scene's rectangle determine, whatever
\* chunks were forced before, and changes no field of the reader; so the
\* chunks of an array give the same array in every order of forcing while
\* the current scene stays the same.
C26_Step ==
    lastOp' = "compute_chunk" =>
        /\ UNCHANGED <<file, current_scene_index, total_bounding_box,
                       scenes_bounding_rectangle, pixel_types, scenes,
                       metadata, xarray_dask_data, xarray_data>>
        /\ DOMAIN arrays' = DOMAIN arrays
        /\ \A a \in DOMAIN arrays :
              /\ DOMAIN arrays'[a].cells = DOMAIN arrays[a].cells
              /\ [arrays'[a] EXCEPT !.cells = arrays[a].cells] = arrays[a]
        /\ Cardinality({c \in AllCells :
                arrays'[c[1]].cells[c[2]] # arrays[c[1]].cells[c[2]]}) <= 1
        /\ \A c \in AllCells :
              arrays'[c[1]].cells[c[2]] # arrays[c[1]].cells[c[2]] =>
                  /\ arrays[c[1]].cells[c[2]].status = "pending"
                  /\ arrays'[c[1]].cells[c[2]].status = "done"
                  /\ Val(arrays'[c[1]].cells[c[2]].value).pixels
                        = PixelsInCurrentScene(c[1], c[2])
C26_ChunkOrderIndependent == [][C26_Step]_vars

\* The first chunk of a delayed array was forced after a later one.
C26_Witness ==
    /\ lastOp = "compute_chunk"
    /\ err = "ok"
    /\ \E q \in reads :
          /\ \A j \in DOMAIN q.idx : q.idx[j] = 0
          /\ \E idx \in DoneCells(q.arr) : idx # q.idx

\* C27: the stored total bounding box, its X and Y extents included, is
\* always the one the decoder reported at construction, whatever arrays
\* were built and whatever scenes were selected.
C27_TotalBoundingBoxUnchanged ==
    total_bounding_box = file.bbox

\* The positions of the events of one kind in the last operation.
EventsOf(kind) == {i \in DOMAIN handle_events : handle_events[i].ev = kind}

\* C28: every decoder handle an operation opens is closed before the
\* operation returns, also when it fails; every plane read goes through a
\* handle that is open and that no other plane read uses; so no handle is
\* left open after any sequence of operations.
C28_HandlesClosed ==
    /\ open_handles = 0
    /\ \A i \in EventsOf("open") :
          /\ \E j \in EventsOf("close") :
                j > i /\ handle_events[j].h = handle_events[i].h
          /\ \A j \in EventsOf("open") :
                j # i => handle_events[j].h # handle_events[i].h
    /\ \A i \in EventsOf("read") :
          /\ \E j \in EventsOf("open") :
                j < i /\ handle_events[j].h = handle_events[i].h
          /\ \E j \in EventsOf("close") :
                j > i /\ handle_events[j].h = handle_events[i].h
          /\ \A j \in EventsOf("read") :
                j # i => handle_events[j].h # handle_events[i].h
    /\ Cardinality(EventsOf("read")) = Cardinality(reads)

\* An immediate read in which the decoder failed a plane after it had read
\* another one, with the metadata loaded by the same call.
C28_Witness ==
    /\ lastOp = "xarray_data"
    /\ err = "RuntimeError"
    /\ Cardinality(EventsOf("read")) = 2
    /\ Cardinality(EventsOf("open")) = 3
    /\ open_handles = 0

\* C29: along every dimension before Y and X an array is as long as the
\* dimension's extent in the total bounding box, and every such dimension
\* with an extent above 1 is a dimension of the array, so that every plane
\* of the file is the plane of one chunk, also when the metadata names
\* fewer channels than the data has.
C29_ArraySpansBoundingBox ==
    \A a \in DOMAIN arrays :
        /\ \A j \in DOMAIN arrays[a].index_dims :
              /\ arrays[a].index_dims[j] \in DOMAIN file.bbox
              /\ arrays[a].shape[j] =
                    file.bbox[arrays[a].index_dims[j]][2]
                    - file.bbox[arrays[a].index_dims[j]][1]
        /\ \A d \in {"T", "C", "Z"} \cap DOMAIN file.bbox :
              file.bbox[d][2] - file.bbox[d][1] > 1
                  => d \in Range(arrays[a].index_dims)

\* C30: elapsed_time_all_subblocks leaves NaT out of the timestamps it
\* sorts, as it leaves None out: whatever mix of parseable, missing and NaT
\* timestamps the subblocks carry, the result is None or a finite number of
\* milliseconds that is not negative.
C30_ElapsedNoneOrFinite ==
    (/\ Called("elapsed_time_all_subblocks")
     /\ \A i \in DOMAIN Val(call).czi : Val(call).czi[i].metadata.wellformed)
        => /\ Val(ret).err = "ok"
           /\ \/ IsNone(Val(ret).value)
              \/ /\ ~Val(Val(ret).value).nan
                 /\ Val(Val(ret).value).ms >= 0

=============================================================================
